---- MODULE Spec2Model ----
(***************************************************************************)
(* A model of juztin/builder (src/main.go): the command line, the tag      *)
(* extractor, the progress-stream parser and the per-file pipeline of      *)
(* main.  Strings are sequences of one-character strings, so that          *)
(* strings.TrimSpace, strings.HasPrefix, strings.Split and the slice       *)
(* expression line[1:] are computed the way the Go code computes them.     *)
(***************************************************************************)
EXTENDS Integers, Sequences, FiniteSets, TLC

VARIABLES
    argv,        \* the flag values the process was started with
    disk,        \* resolved path -> the build file there (its lines), or NoFile
    pc,          \* position of main
    cfg,         \* authCfg returned by arguments()
    fileNames,   \* fileNames returned by arguments()
    cleanup,     \* cleanup returned by arguments()
    files,       \* files returned by dockerFiles()
    k,           \* index of the file of the current iteration of "for _, file := range files"
    tags,        \* tags of the current iteration
    ids,         \* ids of the current iteration
    s,           \* *s, the stat of the current iteration
    stats,       \* stats
    resp,        \* resp.Body / r: the progress stream that is about to be read
    archive,     \* whether os.TempDir()/docker_context.tar.gz exists
    pushIdx,     \* position of "for _, tag := range tags"
    i,           \* i of the cleanup loop
    trace,       \* every call main has made, in order, with its outcome
    summary,     \* the records written after "Success:"
    exitStatus   \* "running", or the exit status of the process: "0", "1", "2" (a panic)

vars == <<argv, disk, pc, cfg, fileNames, cleanup, files, k, tags, ids, s, stats,
          resp, archive, pushIdx, i, trace, summary, exitStatus>>

----------------------------------------------------------------------------
(* Bounds of the model *)

MaxLines == 3
MaxStream == 2
MaxFiles == 2

(* Program constants *)

IdLen == 12

----------------------------------------------------------------------------
(* Strings *)

IsSpace(c) == c \in {" ", "\n", "\t", "\r"}

RECURSIVE TrimLeft(_)
TrimLeft(str) ==
    IF str = <<>> THEN str
    ELSE IF IsSpace(Head(str)) THEN TrimLeft(Tail(str)) ELSE str

RECURSIVE TrimRight(_)
TrimRight(str) ==
    IF str = <<>> THEN str
    ELSE IF IsSpace(str[Len(str)]) THEN TrimRight(SubSeq(str, 1, Len(str) - 1)) ELSE str

TrimSpace(str) == TrimRight(TrimLeft(str))

HasPrefix(str, prefix) ==
    /\ Len(str) >= Len(prefix)
    /\ SubSeq(str, 1, Len(prefix)) = prefix

\* str[n:] of Go
SliceFrom(str, n) == SubSeq(str, n + 1, Len(str))

RECURSIVE SplitFrom(_, _, _)
SplitFrom(str, sep, cur) ==
    IF str = <<>> THEN <<cur>>
    ELSE IF Head(str) = sep THEN <<cur>> \o SplitFrom(Tail(str), sep, <<>>)
    ELSE SplitFrom(Tail(str), sep, Append(cur, Head(str)))

Split(str, sep) == SplitFrom(str, sep, <<>>)

SeqsUpTo(S, n) == UNION {[1..m -> S] : m \in 0..n}

IsPrefixOf(a, b) == Len(a) <= Len(b) /\ SubSeq(b, 1, Len(a)) = a

Last(ss) == ss[Len(ss)]

Reverse(ss) == [j \in 1..Len(ss) |-> ss[Len(ss) + 1 - j]]

Nil == "nil"

\* What a path names: a file with its lines, or nothing that can be opened
File(lines) == [exists |-> TRUE, lines |-> lines]
NoFile == [exists |-> FALSE, lines |-> <<>>]

----------------------------------------------------------------------------
(* arguments(), src/main.go:246-278 *)

\* What arguments() does with the flag values: os.Exit(1), or the values it returns.
\* arguments with "&&" for the "||" of line 265
argumentsAllEmpty(a) ==
    IF a.files = <<>> \/ a.registry = <<>>
    THEN [exit |-> TRUE]
    ELSE IF /\ TrimSpace(a.username \o a.password \o a.email) # <<>>
            /\ (a.username = <<>> /\ a.password = <<>> /\ a.email = <<>>)
    THEN [exit |-> TRUE]
    ELSE [exit |-> FALSE,
          cfg |-> [Username |-> a.username, Password |-> a.password,
                   Email |-> a.email, ServerAddress |-> a.registry],
          fileNames |-> Split(a.files, ","),
          cleanup |-> a.cleanup]

arguments(a) ==
    IF a.files = <<>> \/ a.registry = <<>>
    THEN [exit |-> TRUE]
    ELSE IF /\ TrimSpace(a.username \o a.password \o a.email) # <<>>
            /\ (a.username = <<>> \/ a.password = <<>> \/ a.email = <<>>)
    THEN [exit |-> TRUE]
    ELSE [exit |-> FALSE,
          cfg |-> [Username |-> a.username, Password |-> a.password,
                   Email |-> a.email, ServerAddress |-> a.registry],
          fileNames |-> Split(a.files, ","),
          cleanup |-> a.cleanup]

----------------------------------------------------------------------------
(* tagsFor, src/main.go:137-165 *)

\* The loop "for scanner.Scan()" from line n of the file on, with the tags found so far.
RECURSIVE scanLines(_, _, _)
scanLines(lines, n, found) ==
    IF n > Len(lines) THEN found
    ELSE LET line == TrimSpace(lines[n]) IN
         IF line = <<>> \/ line = <<"#">>
         THEN IF Len(found) = 0 THEN scanLines(lines, n + 1, found) ELSE found
         ELSE scanLines(lines, n + 1, Append(found, TrimSpace(SliceFrom(line, 1))))

\* scanLines without the break of line 152: a blank line after the tags is skipped
RECURSIVE scanLinesNoBreak(_, _, _)
scanLinesNoBreak(lines, n, found) ==
    IF n > Len(lines) THEN found
    ELSE LET line == TrimSpace(lines[n]) IN
         IF line = <<>> \/ line = <<"#">>
         THEN scanLinesNoBreak(lines, n + 1, found)
         ELSE scanLinesNoBreak(lines, n + 1, Append(found, TrimSpace(SliceFrom(line, 1))))

tagsForNoBreak(content) ==
    IF ~content.exists
    THEN [tags |-> <<>>, err |-> "open"]
    ELSE LET found == scanLinesNoBreak(content.lines, 1, <<>>) IN
         [tags |-> found, err |-> IF Len(found) = 0 THEN "NoTagsFound" ELSE Nil]

tagsFor(content) ==
    IF ~content.exists
    THEN [tags |-> <<>>, err |-> "open"]
    ELSE LET found == scanLines(content.lines, 1, <<>>) IN
         [tags |-> found, err |-> IF Len(found) = 0 THEN "NoTagsFound" ELSE Nil]

----------------------------------------------------------------------------
(* readln and writeResponse, src/main.go:202-243 *)

Marker == <<" ", "-", "-", "-", ">", " ">>

\* One line of the response body: a JSON object with a "stream" field, a JSON
\* object without one (status, errorDetail, aux), or a line that is not JSON.
StreamLine(text) == [kind |-> "stream", text |-> text]
OtherLine == [kind |-> "other", text |-> <<>>]
BadLine == [kind |-> "malformed", text |-> <<>>]

\* readln on the n-th line of body: (j.Stream, err)
readln(body, n) ==
    IF n > Len(body) THEN [s |-> <<>>, err |-> "EOF"]
    ELSE IF body[n].kind = "malformed" THEN [s |-> <<>>, err |-> "decode"]
    ELSE [s |-> body[n].text, err |-> Nil]

\* The loop "for err == nil" of writeResponse, about to call readln for line n.
RECURSIVE readLoop(_, _, _)
readLoop(body, n, found) ==
    LET r == readln(body, n) IN
    IF r.err # Nil
    THEN [ids |-> found, err |-> IF r.err = "EOF" THEN Nil ELSE r.err]
    ELSE LET id == TrimSpace(SliceFrom(r.s, Len(Marker))) IN
         IF HasPrefix(r.s, Marker) /\ Len(id) = IdLen
         THEN readLoop(body, n + 1, Append(found, id))
         ELSE readLoop(body, n + 1, found)

\* readLoop with "len(id) >= 12" at line 230
RECURSIVE readLoopAtLeast(_, _, _)
readLoopAtLeast(body, n, found) ==
    LET r == readln(body, n) IN
    IF r.err # Nil
    THEN [ids |-> found, err |-> IF r.err = "EOF" THEN Nil ELSE r.err]
    ELSE LET id == TrimSpace(SliceFrom(r.s, Len(Marker))) IN
         IF HasPrefix(r.s, Marker) /\ Len(id) >= IdLen
         THEN readLoopAtLeast(body, n + 1, Append(found, id))
         ELSE readLoopAtLeast(body, n + 1, found)

writeResponseAtLeast(body) == readLoopAtLeast(body, 1, <<>>)

writeResponse(body) == readLoop(body, 1, <<>>)

----------------------------------------------------------------------------
(* The engine and the file system, as main sees them *)

\* filepath.Abs with the working directory "/"
Abs(f) == IF HasPrefix(f, <<"/">>) THEN f ELSE <<"/">> \o f

Call(op, file, idx, arg, ok) == [op |-> op, file |-> file, idx |-> idx, arg |-> arg, ok |-> ok]

Id1 == <<"a", "1", "b", "2", "c", "3", "d", "4", "e", "5", "f", "6">>
Id2 == <<"0", "7", "a", "8", "b", "9", "c", "0", "d", "1", "e", "2">>
Id3 == <<"f", "f", "e", "e", "d", "d", "c", "c", "b", "b", "a", "a">>
RunningIn == <<"R", "u", "n", "n", "i", "n", "g", " ", "i", "n", " ",
               "a", "4", "3", "0", "b", "8", "c", "0", "5", "9", "6", "e">>
StepLine == <<"S", "t", "e", "p">>

\* Bodies the engine answers a build with, in the pipeline specification.
BuildBodies ==
    { <<StreamLine(StepLine), StreamLine(Marker \o Id1 \o <<"\n">>),
        StreamLine(Marker \o RunningIn \o <<"\n">>), StreamLine(Marker \o Id2 \o <<"\n">>),
        StreamLine(Marker \o Id3 \o <<"\n">>)>>,
      <<StreamLine(StepLine), StreamLine(Marker \o Id1 \o <<"\n">>)>>,
      <<StreamLine(StepLine), OtherLine>>,
      <<StreamLine(StepLine), BadLine>> }

\* Bodies the engine answers a push with.
PushBodies == { <<OtherLine, OtherLine>>, <<OtherLine, BadLine>> }

\* What ImageInspectWithRaw reports for an image.
Image == [Size |-> 5, Architecture |-> "amd64", Os |-> "linux", OsVersion |-> ""]

newStat(file) ==
    [Id |-> <<>>, Tags |-> <<>>, DockerFile |-> file, Architecture |-> "",
     Os |-> "", OsVersion |-> "", Size |-> -1]

\* checkErr ending the process with os.Exit(0)
Exit0 ==
    /\ pc' = "exit"
    /\ exitStatus' = "0"

\* checkErr with a non-nil error, src/main.go:281-286
Exit1 ==
    /\ pc' = "exit"
    /\ exitStatus' = "1"

----------------------------------------------------------------------------
(* main, src/main.go:288-378 *)

\* line 292
Arguments ==
    /\ pc = "arguments"
    /\ LET r == arguments(argv) IN
       IF r.exit
       THEN /\ Exit1
            /\ UNCHANGED <<cfg, fileNames, cleanup>>
       ELSE /\ cfg' = r.cfg
            /\ fileNames' = r.fileNames
            /\ cleanup' = r.cleanup
            /\ pc' = "newClient"
            /\ UNCHANGED exitStatus
    /\ UNCHANGED <<argv, disk, files, k, tags, ids, s, stats, resp, archive, pushIdx, i,
                   trace, summary>>

\* lines 293-294
NewClient ==
    /\ pc = "newClient"
    /\ \E ok \in BOOLEAN :
         /\ trace' = Append(trace, Call("newClient", 0, 0, <<>>, ok))
         /\ IF ok THEN pc' = "dockerFiles" /\ UNCHANGED exitStatus ELSE Exit1
    /\ UNCHANGED <<argv, disk, cfg, fileNames, cleanup, files, k, tags, ids, s, stats, resp,
                   archive, pushIdx, i, summary>>

\* lines 297-305
DockerFiles ==
    /\ pc = "dockerFiles"
    /\ \E ok \in BOOLEAN :
         /\ trace' = Append(trace, Call("dockerFiles", 0, 0, <<>>, ok))
         /\ IF ok
            THEN /\ files' = [n \in 1..Len(fileNames) |-> Abs(fileNames[n])]
                 /\ stats' = <<>>
                 /\ pc' = "loop"
                 /\ UNCHANGED exitStatus
            ELSE /\ Exit1
                 /\ UNCHANGED <<files, stats>>
    /\ UNCHANGED <<argv, disk, cfg, fileNames, cleanup, k, tags, ids, s, resp, archive,
                   pushIdx, i, summary>>

\* lines 306-309: the next iteration of the loop over files, or its end
LoopHead ==
    /\ pc = "loop"
    /\ IF k < Len(files)
       THEN /\ k' = k + 1
            /\ ids' = <<>>
            /\ tags' = <<>>
            /\ s' = newStat(files[k + 1])
            /\ pc' = "tagsFor"
       ELSE /\ pc' = "summary"
            /\ UNCHANGED <<k, ids, tags, s>>
    /\ UNCHANGED <<argv, disk, cfg, fileNames, cleanup, files, stats, resp, archive,
                   pushIdx, i, trace, summary, exitStatus>>

\* lines 312-318
TagsStep ==
    /\ pc = "tagsFor"
    /\ LET r == tagsFor(disk[files[k]]) IN
       /\ trace' = Append(trace, Call("tagsFor", k, 0, r.tags, r.err = Nil))
       /\ IF r.err # Nil
          THEN /\ Exit1
               /\ UNCHANGED <<tags, s>>
          ELSE /\ tags' = r.tags
               /\ s' = [s EXCEPT !.Tags = r.tags]
               /\ pc' = "build"
               /\ UNCHANGED exitStatus
    /\ UNCHANGED <<argv, disk, cfg, fileNames, cleanup, files, k, ids, stats, resp, archive,
                   pushIdx, i, summary>>

\* lines 324-325 with build and createContext, lines 78-95 and 178-186
Build ==
    /\ pc = "build"
    /\ \E outcome \in {"context", "engine", "ok"} :
         /\ trace' = Append(trace, Call("build", k, 0, tags, outcome = "ok"))
         /\ archive' = IF outcome = "context" THEN archive ELSE TRUE
         /\ IF outcome = "ok"
            THEN /\ \E body \in BuildBodies : resp' = body
                 /\ pc' = "writeResponse"
                 /\ UNCHANGED exitStatus
            ELSE /\ Exit1
                 /\ UNCHANGED resp
    /\ UNCHANGED <<argv, disk, cfg, fileNames, cleanup, files, k, tags, ids, s, stats,
                   pushIdx, i, summary>>

\* lines 328-329
BuildStream ==
    /\ pc = "writeResponse"
    /\ LET r == writeResponse(resp) IN
       /\ trace' = Append(trace, Call("writeResponse", k, 0, r.ids, r.err = Nil))
       /\ ids' = r.ids
       /\ IF r.err # Nil
          THEN Exit1
          ELSE pc' = "setId" /\ UNCHANGED exitStatus
    /\ UNCHANGED <<argv, disk, cfg, fileNames, cleanup, files, k, tags, s, stats, resp,
                   archive, pushIdx, i, summary>>

\* The id main takes for the built image, line 331
finalId(found) == found[Len(found)]

\* lines 330-338: index out of range panics; otherwise the context archive is removed
SetId ==
    /\ pc = "setId"
    /\ IF Len(ids) = 0
       THEN /\ pc' = "panic"
            /\ exitStatus' = "2"
            /\ UNCHANGED <<s, archive, pushIdx, trace>>
       ELSE /\ s' = [s EXCEPT !.Id = finalId(ids)]
            /\ archive' = FALSE
            /\ trace' = Append(trace, Call("osRemove", k, 0, <<>>, TRUE))
            /\ pushIdx' = 1
            /\ pc' = IF Len(tags) = 0 THEN "inspect" ELSE "push"
            /\ UNCHANGED exitStatus
    /\ UNCHANGED <<argv, disk, cfg, fileNames, cleanup, files, k, tags, ids, stats, resp,
                   i, summary>>

\* lines 339-346: one iteration of the loop over tags, with push, lines 98-105
Push ==
    /\ pc = "push"
    /\ \E outcome \in {"engine", "ok"} :
         IF outcome = "ok"
         THEN \E body \in PushBodies :
                 LET r == writeResponse(body) IN
                 /\ resp' = body
                 /\ trace' = Append(trace, Call("push", k, pushIdx, tags[pushIdx], r.err = Nil))
                 /\ IF r.err # Nil
                    THEN Exit1 /\ UNCHANGED pushIdx
                    ELSE /\ pushIdx' = pushIdx + 1
                         /\ pc' = IF pushIdx < Len(tags) THEN "push" ELSE "inspect"
                         /\ UNCHANGED exitStatus
         ELSE /\ trace' = Append(trace, Call("push", k, pushIdx, tags[pushIdx], FALSE))
              /\ Exit1
              /\ UNCHANGED <<resp, pushIdx>>
    /\ UNCHANGED <<argv, disk, cfg, fileNames, cleanup, files, k, tags, ids, s, stats,
                   archive, i, summary>>

\* "len(ids) - 2" for "len(ids) - 1"
firstRemovedSkipsLast(found) == Len(found) - 2

\* The first i of "for i := len(ids) - 1; i > 0; i--", line 363
firstRemoved(found) == Len(found) - 1

\* "i >= 0" for "i > 0"
removeMoreInclusive(n) == n >= 0

\* The condition of that loop
removeMore(n) == n > 0

\* lines 350-363: inspect, whose error is dropped, the record and the way into cleanup
Inspect ==
    /\ pc = "inspect"
    /\ \E ok \in BOOLEAN :
         LET rec == IF ok
                    THEN [s EXCEPT !.Size = Image.Size, !.Architecture = Image.Architecture,
                                   !.Os = Image.Os, !.OsVersion = Image.OsVersion]
                    ELSE s
         IN /\ s' = rec
            /\ stats' = Append(stats, rec)
            /\ trace' = trace \o <<Call("inspect", k, 0, s.Id, ok),
                                    Call("record", k, 0, <<>>, TRUE)>>
    /\ i' = firstRemoved(ids)
    /\ pc' = IF cleanup /\ removeMore(firstRemoved(ids)) THEN "remove" ELSE "loop"
    /\ UNCHANGED <<argv, disk, cfg, fileNames, cleanup, files, k, tags, ids, resp, archive,
                   pushIdx, summary, exitStatus>>

\* lines 363-369: one iteration of the cleanup loop
Remove ==
    /\ pc = "remove"
    /\ \E ok \in BOOLEAN :
         trace' = Append(trace, Call("remove", k, i, ids[i + 1], ok))
    /\ i' = i - 1
    /\ pc' = IF removeMore(i - 1) THEN "remove" ELSE "loop"
    /\ UNCHANGED <<argv, disk, cfg, fileNames, cleanup, files, k, tags, ids, s, stats, resp,
                   archive, pushIdx, summary, exitStatus>>

\* lines 372-378
Summary ==
    /\ pc = "summary"
    /\ summary' = stats
    /\ exitStatus' = "0"
    /\ pc' = "done"
    /\ UNCHANGED <<argv, disk, cfg, fileNames, cleanup, files, k, tags, ids, s, stats, resp,
                   archive, pushIdx, i, trace>>

----------------------------------------------------------------------------
(* Inputs *)

NameChars == <<"a", "b", "c", "d">>
FileName(n) == <<NameChars[n]>>

\* The value of -files naming the first n files
RECURSIVE FilesFlag(_)
FilesFlag(n) ==
    IF n = 0 THEN <<>>
    ELSE IF n = 1 THEN FileName(1)
    ELSE FilesFlag(n - 1) \o <<",">> \o FileName(n)

Args(u, p, e, r, f, c) ==
    [username |-> u, password |-> p, email |-> e, registry |-> r, files |-> f, cleanup |-> c]

CredValues == {<<>>, <<" ">>, <<"u">>}

AllArgs ==
    {Args(u, p, e, r, FilesFlag(n), c) :
        u \in CredValues, p \in CredValues, e \in CredValues,
        r \in {<<>>, <<"r">>}, n \in 0..MaxFiles, c \in BOOLEAN}

\* The command lines of the pipeline specification: no credentials, all three,
\* or the user name alone
MainArgs ==
    {a \in AllArgs :
        /\ a.username \in {<<>>, <<"u">>}
        /\ a.password = a.email
        /\ a.password \in {<<>>, a.username}
        /\ (a.registry = <<>> => a.files = <<>>)}

\* The lines of a build file: white space around an optional '#', a gap and a text
Texts == {<<>>, <<"t">>, <<"t", " ", "u">>}
AllLines ==
    {p \o h \o g \o t \o p : p \in {<<>>, <<" ">>}, h \in {<<>>, <<"#">>},
                                g \in {<<>>, <<" ">>}, t \in Texts}

\* The build files of the pipeline specification: two tag lines and an
\* instruction, an instruction alone, blank lines alone
MainContents ==
    { File(<< <<"#", " ", "t">>, <<"#", "u", " ">>, <<>>, <<"F", "R", "O", "M">> >>),
      File(<< <<"F", "R", "O", "M">> >>),
      File(<< <<" ">>, <<"#">> >>) }

Prefixes == {Marker, Tail(Marker), <<>>}
Payloads == {Id1, Id2, SubSeq(Id1, 1, IdLen - 1), Id1 \o <<"0">>, RunningIn}
Messages ==
    {p \o l \o b \o r : p \in Prefixes, l \in {<<>>, <<" ">>}, b \in Payloads,
                          r \in {<<>>, <<"\n">>}}
AllStreamLines == {StreamLine(m) : m \in Messages} \cup {OtherLine, BadLine}
AllBodies == SeqsUpTo(AllStreamLines, MaxStream)

Paths == {Abs(FileName(n)) : n \in 1..MaxFiles}

\* The process as it starts
Start(a, d) ==
    /\ argv = a
    /\ disk = d
    /\ pc = "arguments"
    /\ cfg = [Username |-> <<>>, Password |-> <<>>, Email |-> <<>>, ServerAddress |-> <<>>]
    /\ fileNames = <<>>
    /\ cleanup = FALSE
    /\ files = <<>>
    /\ k = 0
    /\ tags = <<>>
    /\ ids = <<>>
    /\ s = newStat(<<>>)
    /\ stats = <<>>
    /\ resp = <<>>
    /\ archive = FALSE
    /\ pushIdx = 0
    /\ i = 0
    /\ trace = <<>>
    /\ summary = <<>>
    /\ exitStatus = "running"

Init == \E a \in MainArgs, d \in [Paths -> MainContents] : Start(a, d)

Next ==
    \/ Arguments
    \/ NewClient
    \/ DockerFiles
    \/ LoopHead
    \/ TagsStep
    \/ Build
    \/ BuildStream
    \/ SetId
    \/ Push
    \/ Inspect
    \/ Remove
    \/ Summary

Spec == Init /\ [][Next]_vars

(* The command line alone: every combination of flag values *)

InitArgs == \E a \in AllArgs : Start(a, [p \in Paths |-> NoFile])

NextArgs == Arguments \/ NewClient

SpecArgs == InitArgs /\ [][NextArgs]_vars

(* main as it is about to call tagsFor for its one file, for every content of that file *)

OneFile == Args(<<"u">>, <<"u">>, <<"u">>, <<"r">>, FilesFlag(1), TRUE)

AtFirstFile(d) ==
    /\ argv = OneFile
    /\ disk = d
    /\ cfg = arguments(OneFile).cfg
    /\ fileNames = arguments(OneFile).fileNames
    /\ cleanup = arguments(OneFile).cleanup
    /\ files = <<Abs(FileName(1))>>
    /\ k = 1
    /\ stats = <<>>
    /\ pushIdx = 0
    /\ i = 0
    /\ summary = <<>>
    /\ exitStatus = "running"

InitTags ==
    \E n \in 0..MaxLines : \E lines \in [1..n -> AllLines], there \in BOOLEAN :
        /\ there \/ n = 0
        /\ AtFirstFile([p \in {Abs(FileName(1))} |-> IF there THEN File(lines) ELSE NoFile])
        /\ pc = "tagsFor"
        /\ tags = <<>>
        /\ ids = <<>>
        /\ s = newStat(Abs(FileName(1)))
        /\ resp = <<>>
        /\ archive = FALSE
        /\ trace = <<Call("newClient", 0, 0, <<>>, TRUE), Call("dockerFiles", 0, 0, <<>>, TRUE)>>

NextTags == TagsStep

SpecTags == InitTags /\ [][NextTags]_vars

(* main as it is about to read the build's response body, for every body *)

OneTag == File(<< <<"#", "t">> >>)

InitStream ==
    \E body \in AllBodies :
        /\ AtFirstFile([p \in {Abs(FileName(1))} |-> OneTag])
        /\ pc = "writeResponse"
        /\ tags = tagsFor(OneTag).tags
        /\ ids = <<>>
        /\ s = [newStat(Abs(FileName(1))) EXCEPT !.Tags = tagsFor(OneTag).tags]
        /\ resp = body
        /\ archive = TRUE
        /\ trace = <<Call("newClient", 0, 0, <<>>, TRUE), Call("dockerFiles", 0, 0, <<>>, TRUE),
                     Call("tagsFor", 1, 0, tagsFor(OneTag).tags, TRUE),
                     Call("build", 1, 0, tagsFor(OneTag).tags, TRUE)>>

NextStream == BuildStream \/ SetId

SpecStream == InitStream /\ [][NextStream]_vars

----------------------------------------------------------------------------
(* Properties of the tag extractor *)

ThePath == Abs(FileName(1))
TheLines == disk[ThePath].lines

IsBlank(line) == \A j \in 1..Len(line) : IsSpace(line[j])

\* A '#', after nothing but white space, followed by some text
IsCommentLine(line) ==
    \E h \in 1..Len(line) :
        /\ line[h] = "#"
        /\ \A j \in 1..(h - 1) : IsSpace(line[j])
        /\ \E j \in (h + 1)..Len(line) : ~IsSpace(line[j])

\* The text of a comment line: from the first to the last character after the
\* '#' that is not white space
CommentText(line) ==
    LET h == CHOOSE h \in 1..Len(line) :
                 line[h] = "#" /\ \A j \in 1..(h - 1) : IsSpace(line[j])
        text == {j \in (h + 1)..Len(line) : ~IsSpace(line[j])}
        lo == CHOOSE j \in text : \A m \in text : j <= m
        hi == CHOOSE j \in text : \A m \in text : j >= m
    IN SubSeq(line, lo, hi)

\* b blank lines, then n comment lines, then a blank line
HeaderShape(lines, b, n) ==
    /\ n >= 1
    /\ b + n + 1 <= Len(lines)
    /\ \A j \in 1..b : IsBlank(lines[j])
    /\ \A j \in (b + 1)..(b + n) : IsCommentLine(lines[j])
    /\ IsBlank(lines[b + n + 1])

\* C1: when the file is zero or more blank lines, N >= 1 comment lines, a blank
\* line and anything after it, tagsFor returns no error and exactly the N comment
\* texts, in file order; nothing after the blank line becomes a tag.
C1_HeaderTags ==
    (pc # "tagsFor" /\ disk[ThePath].exists) =>
        \A b \in 0..Len(TheLines), n \in 1..Len(TheLines) :
            HeaderShape(TheLines, b, n) =>
                /\ pc = "build"
                /\ Last(trace).ok
                /\ tags = [j \in 1..n |-> CommentText(TheLines[b + j])]
                /\ s.Tags = tags

C1_Witness ==
    /\ pc = "build"
    /\ HeaderShape(TheLines, 0, 2)
    /\ Len(tags) = 2
    /\ tags[1] # tags[2]

\* A bare '#': one '#' and white space around it
IsBareHash(line) ==
    \E h \in 1..Len(line) :
        /\ line[h] = "#"
        /\ \A j \in 1..Len(line) : j # h => IsSpace(line[j])

\* No leading comment line: the first line that is neither blank nor a bare '#'
\* is no comment line, or there is no such line
ZeroLeadingComments(lines) ==
    \A n \in 1..Len(lines) :
        (/\ ~IsBlank(lines[n]) /\ ~IsBareHash(lines[n])
         /\ \A j \in 1..(n - 1) : IsBlank(lines[j]) \/ IsBareHash(lines[j]))
            => ~IsCommentLine(lines[n])

\* C2: for a file without a leading comment line tagsFor fails with the
\* no-tags-found error, and main exits before the build step.
C2_NoTagsWithoutComments ==
    (pc # "tagsFor" /\ disk[ThePath].exists /\ ZeroLeadingComments(TheLines)) =>
        /\ pc = "exit"
        /\ Last(trace) = Call("tagsFor", 1, 0, <<>>, FALSE)

----------------------------------------------------------------------------
(* Properties of the progress-stream parser *)

\* The message starts with the marker and what follows it is, white space at
\* both ends apart, IdLen characters long
Qualifies(text) ==
    /\ Len(text) >= Len(Marker)
    /\ \A j \in 1..Len(Marker) : text[j] = Marker[j]
    /\ LET seen == {j \in (Len(Marker) + 1)..Len(text) : ~IsSpace(text[j])} IN
       /\ seen # {}
       /\ \E lo \in seen, hi \in seen :
            /\ \A m \in seen : lo <= m /\ m <= hi
            /\ hi - lo + 1 = IdLen

IdOf(text) ==
    LET seen == {j \in (Len(Marker) + 1)..Len(text) : ~IsSpace(text[j])}
        lo == CHOOSE j \in seen : \A m \in seen : j <= m
    IN SubSeq(text, lo, lo + IdLen - 1)

QualifyingLine(line) == line.kind = "stream" /\ Qualifies(line.text)

ExpectedIds(body) ==
    LET kept == SelectSeq(body, QualifyingLine)
    IN [j \in 1..Len(kept) |-> IdOf(kept[j].text)]

Decodes(body) == \A j \in 1..Len(body) : body[j].kind # "malformed"

\* C3: for a body that decodes to its end, writeResponse returns, without an
\* error, the ids of the qualifying messages in stream order -- a "Running in"
\* message is none -- and main takes the last of them as the image id.
C3_IdsInStreamOrder ==
    (pc # "writeResponse" /\ Decodes(resp)) =>
        /\ pc \in {"setId", "push", "panic"}
        /\ Last(trace).op = "writeResponse" => Last(trace).ok
        /\ ids = ExpectedIds(resp)
        /\ \A j \in 1..Len(ids) : ids[j] # RunningIn /\ Len(ids[j]) = IdLen
        /\ pc = "push" => s.Id = Last(ExpectedIds(resp))

C3_Witness ==
    /\ pc = "push"
    /\ Len(resp) = 2
    /\ resp[1] = StreamLine(Marker \o RunningIn \o <<"\n">>)
    /\ resp[2] = StreamLine(Marker \o Id2 \o <<"\n">>)
    /\ s.Id = Id2

----------------------------------------------------------------------------
(* Properties of the pipeline *)

Terminated == pc \in {"exit", "done", "panic"}

\* The calls of one kind made for file j, in order
CallsOf(op, j) == SelectSeq(trace, LAMBDA e : e.op = op /\ e.file = j)

ArgsOf(op, j) == [n \in 1..Len(CallsOf(op, j)) |-> CallsOf(op, j)[n].arg]

\* What tagsFor and writeResponse returned for file j, <<>> before they have
TagsOf(j) == IF CallsOf("tagsFor", j) = <<>> THEN <<>> ELSE CallsOf("tagsFor", j)[1].arg
IdsOf(j) == IF CallsOf("writeResponse", j) = <<>> THEN <<>> ELSE CallsOf("writeResponse", j)[1].arg

\* The iteration for file j is over
IterationOver(j) == j < k \/ (j = k /\ pc \in {"loop", "summary", "done"})

\* ids[n-1], ..., ids[1] of Go: the list without its first element, backwards
ReverseWithoutFirst(found) == IF found = <<>> THEN <<>> ELSE Reverse(Tail(found))

\* C4: with cleanup enabled the removals attempted for a file are exactly
\* ids[n-1], ..., ids[1], in that order, whatever each removal answers: ids[0]
\* is not attempted and a failed removal does not end the loop or the run.
C4_RemovalOrder ==
    \A j \in 1..k :
        /\ cleanup => IsPrefixOf(ArgsOf("remove", j), ReverseWithoutFirst(IdsOf(j)))
        /\ (cleanup /\ IterationOver(j)) =>
              /\ ArgsOf("remove", j) = ReverseWithoutFirst(IdsOf(j))
              /\ \A n \in 1..Len(CallsOf("remove", j)) :
                    CallsOf("remove", j)[n].idx = Len(IdsOf(j)) - n
        /\ (j = k /\ pc = "remove") =>
              /\ IdsOf(j) = ids
              /\ Len(ArgsOf("remove", j)) = Len(ids) - 1 - i
              /\ exitStatus = "running"
        /\ ~cleanup => ArgsOf("remove", j) = <<>>

C4_Witness ==
    /\ cleanup
    /\ pc = "loop"
    /\ k = 1
    /\ Len(ids) = 3
    /\ ArgsOf("remove", 1) = <<ids[3], ids[2]>>
    /\ ~CallsOf("remove", 1)[1].ok

FatalOps == {"newClient", "dockerFiles", "tagsFor", "build", "writeResponse", "push"}

\* A failed call of one of ops is the last call of the run, which exits with
\* status 1 before any summary
EndTheRun(ops) ==
    \A n \in 1..Len(trace) :
        (~trace[n].ok /\ trace[n].op \in ops) =>
            /\ n = Len(trace)
            /\ pc = "exit"
            /\ exitStatus = "1"
            /\ summary = <<>>

\* C5, as amended: a failed image removal and a failed image inspect do not end
\* the run; a failure of client creation, file resolution, tag extraction, build
\* submission, progress-stream decoding or push ends it at once with a non-zero
\* status: no further call, no later file, no summary.
C5_FatalExceptInspectAndRemove ==
    /\ EndTheRun(FatalOps)
    /\ \A n \in 1..Len(trace) : ~trace[n].ok => trace[n].op \in FatalOps \cup {"inspect", "remove"}
    /\ pc = "exit" =>
          /\ exitStatus = "1"
          /\ summary = <<>>
          /\ trace = <<>> \/ (~Last(trace).ok /\ Last(trace).op \in FatalOps)

C5_Witness ==
    /\ pc = "exit"
    /\ Len(stats) = 1
    /\ \E n \in 1..Len(trace) : trace[n].op = "inspect" /\ ~trace[n].ok
    /\ \E n \in 1..Len(trace) : trace[n].op = "remove" /\ ~trace[n].ok
    /\ Last(trace).op = "push"
    /\ Last(trace).file = 2

\* C5 as claimed: image removal is the sole failure that does not end the run.
C5_OnlyRemovalNonFatal == EndTheRun(FatalOps \cup {"inspect"})

\* C6: once the process has ended, however it ended, the context archive is gone.
C6_ArchiveDeleted == Terminated => ~archive

IsSet(v) == v # <<>>
HasVisible(v) == \E j \in 1..Len(v) : ~IsSpace(v[j])

Credentials(a) == {a.username, a.password, a.email}

ExitsBeforeClient ==
    /\ pc = "exit"
    /\ exitStatus = "1"
    /\ trace = <<>>

FatalStepsSucceed ==
    /\ ~arguments(argv).exit
    /\ \A n \in 1..Len(trace) : ~trace[n].ok => trace[n].op \in {"inspect", "remove"}

\* C8: when every fatal step succeeds the run exits with status 0 and the summary
\* holds one record per input file, in input order, with the file's path, the
\* tags extracted from it and the last id of its build stream.
C8_OneRecordPerFile ==
    (Terminated /\ FatalStepsSucceed) =>
        /\ exitStatus = "0"
        /\ Len(summary) = Len(fileNames)
        /\ \A j \in 1..Len(summary) :
              /\ summary[j].DockerFile = Abs(fileNames[j])
              /\ summary[j].Tags = tagsFor(disk[Abs(fileNames[j])]).tags
              /\ summary[j].Id # <<>>
              /\ summary[j].Id = Last(IdsOf(j))

\* C10: when main takes ids[len(ids)-1], ids is not empty.
C10_IdsNotEmpty == pc = "setId" => Len(ids) > 0

PipelineOps == {"tagsFor", "build", "push", "inspect", "record", "remove"}

Step(op, j, arg) == <<op, j, arg>>

\* The pipeline steps taken for file j, in order
Segment(j) ==
    LET calls == SelectSeq(trace, LAMBDA e : e.file = j /\ e.op \in PipelineOps)
    IN [n \in 1..Len(calls) |-> Step(calls[n].op, j, calls[n].arg)]

Pushes(j) == [n \in 1..Len(TagsOf(j)) |-> Step("push", j, TagsOf(j)[n])]

Removals(j) ==
    IF cleanup
    THEN [n \in 1..Len(ReverseWithoutFirst(IdsOf(j))) |->
              Step("remove", j, ReverseWithoutFirst(IdsOf(j))[n])]
    ELSE <<>>

InspectStep(j) == Step("inspect", j, IF IdsOf(j) = <<>> THEN <<>> ELSE Last(IdsOf(j)))

\* Tags, Build, Push per tag, Inspect, Record, Cleanup
RecordThenCleanup(j) ==
    <<Step("tagsFor", j, TagsOf(j)), Step("build", j, TagsOf(j))>> \o Pushes(j)
        \o <<InspectStep(j), Step("record", j, <<>>)>> \o Removals(j)

\* Tags, Build, Push per tag, Inspect, Cleanup, Record
CleanupThenRecord(j) ==
    <<Step("tagsFor", j, TagsOf(j)), Step("build", j, TagsOf(j))>> \o Pushes(j)
        \o <<InspectStep(j)>> \o Removals(j) \o <<Step("record", j, <<>>)>>

\* The run is, file by file in input order, the steps of the fixed sequence
\* order(j), cut short only where the process ended
FollowsPipeline(order(_)) ==
    /\ \A a \in 1..Len(trace), b \in 1..Len(trace) : a < b => trace[a].file <= trace[b].file
    /\ \A n \in 1..Len(trace) : trace[n].file <= k
    /\ \A j \in 1..k :
          /\ IsPrefixOf(Segment(j), order(j))
          /\ IterationOver(j) => Segment(j) = order(j)

\* C9, as amended: every run is, file by file in input order, one tag
\* extraction, one build, one push per tag in tag order, one inspect, the append
\* of the file's record and only then the removals of cleanup; no step of a later
\* file comes before the last step of an earlier one and none is repeated.
C9_RecordBeforeCleanup == FollowsPipeline(RecordThenCleanup)

C9_Witness ==
    /\ pc = "done"
    /\ Len(files) = 2
    /\ Len(ArgsOf("push", 1)) = 2
    /\ Len(ArgsOf("remove", 1)) = 2
    /\ Len(ArgsOf("remove", 2)) = 2

\* C9 as claimed: the record is appended after the removals of cleanup.
C9_RecordAfterCleanup == FollowsPipeline(CleanupThenRecord)

====
